---- MODULE Spec2Model ----
(***************************************************************************)
(* Model of clms_hrwsi_awic_downloader.py: the request builder, the two    *)
(* HTTP retrievals, the normalisation of observation records and the       *)
(* output serialisation.                                                   *)
(*                                                                         *)
(* A Python string is a sequence of one-character strings.  A Python      *)
(* value held in a JSON array is a record [t, n, s]: t is the type         *)
(* ("int", "str" or "none"), n the number of an int, s the characters of a *)
(* str.                                                                    *)
(***************************************************************************)
EXTENDS Integers, Sequences, FiniteSets

\* ------------------------------------------------------------------------
\* Bounds of the model
\* ------------------------------------------------------------------------
MaxItems == 3

MaxGeomItems == 2

MaxIndex == 1

MaxMissionCode == 3

\* ------------------------------------------------------------------------
\* Python values and strings
\* ------------------------------------------------------------------------
None == <<"None">>

PyInt(n) == [t |-> "int", n |-> n, s |-> <<>>]

PyStr(s) == [t |-> "str", n |-> 0, s |-> s]

PyNone == [t |-> "none", n |-> 0, s |-> <<>>]

DigitChars == <<"0", "1", "2", "3", "4", "5", "6", "7", "8", "9">>

IsDigit(c) == \E d \in 1..10 : DigitChars[d] = c

DigitVal(c) == (CHOOSE d \in 1..10 : DigitChars[d] = c) - 1

AllDigits(s) == \A i \in 1..Len(s) : IsDigit(s[i])

RECURSIVE IntToStr(_)
IntToStr(n) == IF n < 10 THEN <<DigitChars[n + 1]>>
               ELSE IntToStr(n \div 10) \o <<DigitChars[(n % 10) + 1]>>

RECURSIVE ZeroPad(_, _)
ZeroPad(s, width) == IF Len(s) >= width THEN s ELSE ZeroPad(<<"0">> \o s, width)

\* int(s) of a string of digits
RECURSIVE StrToInt(_)
StrToInt(s) == IF Len(s) = 0 THEN 0
               ELSE 10 * StrToInt(SubSeq(s, 1, Len(s) - 1)) + DigitVal(s[Len(s)])

\* str(x), as an f-string or '%s' renders a value
Str(x) == IF x.t = "int" THEN IntToStr(x.n)
          ELSE IF x.t = "str" THEN x.s
          ELSE <<"N","o","n","e">>

\* str.replace(old, new) for a one-character old
RECURSIVE Replace(_, _, _)
Replace(s, old, new) ==
    IF Len(s) = 0 THEN <<>>
    ELSE (IF Head(s) = old THEN new ELSE <<Head(s)>>) \o Replace(Tail(s), old, new)

\* ------------------------------------------------------------------------
\* datetime.strptime(text, "%Y%m%dT%H%M%S") and strftime
\* ------------------------------------------------------------------------
\* the widths the regular expression of a directive tries, widest first
DateSplits == << <<2, 2>>, <<2, 1>>, <<1, 2>>, <<1, 1>> >>

TimeSplits == << <<2, 2, 2>>, <<2, 2, 1>>, <<2, 1, 2>>, <<2, 1, 1>>,
                 <<1, 2, 2>>, <<1, 2, 1>>, <<1, 1, 2>>, <<1, 1, 1>> >>

\* %m: 1[0-2]|0[1-9]|[1-9]
MatchMonth(p) ==
    IF Len(p) = 2 THEN \/ p[1] = "1" /\ DigitVal(p[2]) <= 2
                       \/ p[1] = "0" /\ DigitVal(p[2]) >= 1
    ELSE DigitVal(p[1]) >= 1

\* %d: 3[0-1]|[1-2]\d|0[1-9]|[1-9]
MatchDay(p) ==
    IF Len(p) = 2 THEN \/ p[1] = "3" /\ DigitVal(p[2]) <= 1
                       \/ p[1] \in {"1", "2"}
                       \/ p[1] = "0" /\ DigitVal(p[2]) >= 1
    ELSE DigitVal(p[1]) >= 1

\* %H: 2[0-3]|[0-1]\d|\d
MatchHour(p) ==
    IF Len(p) = 2 THEN \/ p[1] = "2" /\ DigitVal(p[2]) <= 3
                       \/ p[1] \in {"0", "1"}
    ELSE TRUE

\* %M: [0-5]\d|\d
MatchMinute(p) == IF Len(p) = 2 THEN DigitVal(p[1]) <= 5 ELSE TRUE

\* %S: 6[0-1]|[0-5]\d|\d
MatchSecond(p) ==
    IF Len(p) = 2 THEN \/ p[1] = "6" /\ DigitVal(p[2]) <= 1
                       \/ DigitVal(p[1]) <= 5
    ELSE TRUE

IsLeap(y) == (y % 4 = 0 /\ y % 100 # 0) \/ y % 400 = 0

DaysInMonth(y, m) == IF m = 2 THEN (IF IsLeap(y) THEN 29 ELSE 28)
                     ELSE IF m \in {4, 6, 9, 11} THEN 30 ELSE 31

\* the date part, which must end exactly where the literal T stands
DateMatches(d, i) ==
    /\ Len(d) = 4 + DateSplits[i][1] + DateSplits[i][2]
    /\ MatchMonth(SubSeq(d, 5, 4 + DateSplits[i][1]))
    /\ MatchDay(SubSeq(d, 5 + DateSplits[i][1], Len(d)))

\* the time part: the first split the expression matches, trailing text or not
TimeMatches(t, i) ==
    LET a == TimeSplits[i][1]
        b == TimeSplits[i][2]
        c == TimeSplits[i][3]
    IN /\ Len(t) >= a + b + c
       /\ MatchHour(SubSeq(t, 1, a))
       /\ MatchMinute(SubSeq(t, a + 1, a + b))
       /\ MatchSecond(SubSeq(t, a + b + 1, a + b + c))

NoDateTime == [ok |-> FALSE, Y |-> 0, m |-> 0, d |-> 0, H |-> 0, M |-> 0, S |-> 0]

\* datetime.strptime(text, "%Y%m%dT%H%M%S"); ok = FALSE is the ValueError
Strptime(text) ==
    LET Ts == {i \in 1..Len(text) : text[i] = "T"}
    IN IF Cardinality(Ts) # 1 THEN NoDateTime
       ELSE
       LET tpos == CHOOSE i \in Ts : TRUE
           d == SubSeq(text, 1, tpos - 1)
           t == SubSeq(text, tpos + 1, Len(text))
           DS == {i \in 1..Len(DateSplits) : DateMatches(d, i)}
           TS == {i \in 1..Len(TimeSplits) : TimeMatches(t, i)}
       IN IF ~AllDigits(d) \/ ~AllDigits(t) \/ Len(d) < 6 \/ DS = {} \/ TS = {}
          THEN NoDateTime
          ELSE
          LET ds == DateSplits[CHOOSE i \in DS : \A j \in DS : i <= j]
              ts == TimeSplits[CHOOSE i \in TS : \A j \in TS : i <= j]
              Y == StrToInt(SubSeq(d, 1, 4))
              m == StrToInt(SubSeq(d, 5, 4 + ds[1]))
              dd == StrToInt(SubSeq(d, 5 + ds[1], Len(d)))
              H == StrToInt(SubSeq(t, 1, ts[1]))
              M == StrToInt(SubSeq(t, ts[1] + 1, ts[1] + ts[2]))
              S == StrToInt(SubSeq(t, ts[1] + ts[2] + 1, ts[1] + ts[2] + ts[3]))
          IN IF \/ Len(t) # ts[1] + ts[2] + ts[3]      \* unconverted data remains
                \/ Y < 1 \/ dd > DaysInMonth(Y, m) \/ S > 59
             THEN NoDateTime
             ELSE [ok |-> TRUE, Y |-> Y, m |-> m, d |-> dd, H |-> H, M |-> M, S |-> S]

\* dt.strftime('%Y-%m-%dT%H:%M:%S')
Strftime(dt) ==
    IntToStr(dt.Y) \o <<"-">> \o ZeroPad(IntToStr(dt.m), 2) \o <<"-">>
    \o ZeroPad(IntToStr(dt.d), 2) \o <<"T">> \o ZeroPad(IntToStr(dt.H), 2) \o <<":">>
    \o ZeroPad(IntToStr(dt.M), 2) \o <<":">> \o ZeroPad(IntToStr(dt.S), 2)

\* ------------------------------------------------------------------------
\* format_awic_product
\* ------------------------------------------------------------------------
Raised(exc) == [ok |-> FALSE, val |-> <<>>, exc |-> exc]

Returned(val) == [ok |-> TRUE, val |-> val, exc |-> ""]

\* a table whose entries for codes 1 and 2 are exchanged
mission_labels_swapped(code) ==
    IF code.t = "int" /\ code.n = 0 THEN <<"S","e","n","t","i","n","e","l","-","1"," ","S","e","n","t","i","n","e","l","-","2">>
    ELSE IF code.t = "int" /\ code.n = 1 THEN <<"S","e","n","t","i","n","e","l","-","2">>
    ELSE IF code.t = "int" /\ code.n = 2 THEN <<"S","e","n","t","i","n","e","l","-","1">>
    ELSE <<>>

\* mission_labels.get(mission_code, "")
mission_labels(code) ==
    IF code.t = "int" /\ code.n = 0 THEN <<"S","e","n","t","i","n","e","l","-","1"," ","S","e","n","t","i","n","e","l","-","2">>
    ELSE IF code.t = "int" /\ code.n = 1 THEN <<"S","e","n","t","i","n","e","l","-","1">>
    ELSE IF code.t = "int" /\ code.n = 2 THEN <<"S","e","n","t","i","n","e","l","-","2">>
    ELSE <<>>

\* f"{awic[2]:06d}": an int is zero-padded, a str has no format code 'd'
\* (ValueError), None takes no format specification (TypeError)
time_str(v) ==
    IF v.t = "int" THEN Returned(ZeroPad(IntToStr(v.n), 6))
    ELSE IF v.t = "str" THEN Raised("ValueError")
    ELSE Raised("TypeError")

format_awic_product(awic, index) ==
    IF Len(awic) < 3 THEN Raised("ValueError")          \* IndexError, re-raised
    ELSE
    LET ts == time_str(awic[3])
    IN IF ~ts.ok THEN ts
       ELSE
       LET dt == Strptime(Str(awic[2]) \o <<"T">> \o ts.val)
       IN IF ~dt.ok THEN Raised("ValueError")
          ELSE
          LET mission_code == IF Len(awic) > 12 THEN awic[13] ELSE PyNone
              mission == mission_labels(mission_code)
          IN Returned(<<PyInt(index + 1), awic[1], PyStr(Strftime(dt))>>
                      \o SubSeq(awic, 4, IF Len(awic) < 12 THEN Len(awic) ELSE 12)
                      \o <<PyStr(mission)>>)

\* ------------------------------------------------------------------------
\* Program state
\* ------------------------------------------------------------------------
VARIABLES
    pc,                     \* position of the run
    returnMode,             \* 'csv', 'variable', 'csv_and_variable' (or other)
    outputDir,              \* self.outputDir, None when not given
    requestGeometries,      \* request_geometries
    args,                   \* the arguments of build_request
    awic_http_request,      \* self.awic_http_request
    geometry_http_request,  \* self.geometry_http_request
    awic_result_file,       \* self.awic_result_file
    geomResponse,           \* what requests.get returned in request_geometry
    awicResponse,           \* what requests.get returned in request_page
    geometries,             \* local geometries of execute_request
    awic_products,          \* local awic_products of execute_request
    files,                  \* the files of the output directory
    log,                    \* the GETs issued and the files opened for writing
    outcome,                \* how the run ended: return, sys.exit or exception
    result,                 \* the tuple execute_request returns
    fmtIn,                  \* arguments of a format_awic_product call
    fmtOut                  \* its result

vars == <<pc, returnMode, outputDir, requestGeometries, args, awic_http_request,
          geometry_http_request, awic_result_file, geomResponse, awicResponse,
          geometries, awic_products, files, log, outcome, result, fmtIn, fmtOut>>

\* ------------------------------------------------------------------------
\* How a run ends
\* ------------------------------------------------------------------------
Running == [kind |-> "running", code |-> <<>>, exc |-> ""]

\* return from execute_request
Return == [kind |-> "return", code |-> <<>>, exc |-> ""]

\* sys.exit(*code): code is <<>> for sys.exit() and <<n>> for sys.exit(n)
SysExit(code) == [kind |-> "SystemExit", code |-> code, exc |-> ""]

\* an exception nothing catches
Raise(exc) == [kind |-> "raise", code |-> <<>>, exc |-> exc]

\* the exit status the operating system sees (8 bits)
ProcessStatus(o) ==
    IF o.kind = "raise" THEN 1
    ELSE IF o.kind = "SystemExit" /\ o.code # <<>> THEN o.code[1] % 256
    ELSE 0

\* ------------------------------------------------------------------------
\* AwicRequest constants
\* ------------------------------------------------------------------------
URL_ROOT == <<"h","t","t","p","s",":","/","/","w","s","i",".","l","a","n","d",".","c","o","p","e","r","n","i","c","u","s",".","e","u","/","a","w","i","c","/">>

AWIC_PROC == <<"g","e","t","_","a","w","i","c">>

GEOMETRY_PROC == <<"g","e","t","_","g","e","o","m","e","t","r","i","e","s">>

URL_PARAM_GEOMETRYWKT_WGS84 == <<"g","e","o","m","e","t","r","y","w","k","t","_","w","g","s","8","4">>

URL_PARAM_GEOMETRYWKT_LAEA == <<"g","e","o","m","e","t","r","y","w","k","t","_","l","a","e","a">>

URL_PARAM_OBSERVATIONDATE_AFTER == <<"s","t","a","r","t","d","a","t","e">>

URL_PARAM_OBSERVATIONDATE_BEFORE == <<"c","o","m","p","l","e","t","i","o","n","d","a","t","e">>

URL_PARAM_CLOUD_PERCENTAGE == <<"c","l","o","u","d","c","o","v","e","r","a","g","e","m","a","x">>

URL_PARAM_OUTPUT_SRID_GEOMETRY == <<"o","u","t","p","u","t","_","s","r","i","d">>

\* ------------------------------------------------------------------------
\* validate_Rfc3339 and build_request
\* ------------------------------------------------------------------------
\* datetime.strptime(date_text, '%Y-%m-%d') succeeds
validate_Rfc3339(date_text) ==
    LET Ds == {i \in 1..Len(date_text) : date_text[i] = "-"}
    IN /\ Cardinality(Ds) = 2
       /\ 5 \in Ds
       /\ LET p == CHOOSE i \in Ds : i # 5
              y == SubSeq(date_text, 1, 4)
              m == SubSeq(date_text, 6, p - 1)
              d == SubSeq(date_text, p + 1, Len(date_text))
          IN /\ p > 5
             /\ Len(m) \in {1, 2} /\ Len(d) \in {1, 2}
             /\ AllDigits(y) /\ AllDigits(m) /\ AllDigits(d)
             /\ MatchMonth(m) /\ MatchDay(d)
             /\ StrToInt(y) >= 1
             /\ StrToInt(d) <= DaysInMonth(StrToInt(y), StrToInt(m))

\* truth value of an optional string argument
TruthyStr(s) == s # None /\ s # <<>>

\* truth value of cloudCoverageMax
TruthyVal(v) == IF v.t = "int" THEN v.n # 0
                ELSE IF v.t = "str" THEN v.s # <<>>
                ELSE FALSE

\* '&'.join(['%s=%s' % (key, value) for key, value in url_params.items()])
RECURSIVE JoinParams(_)
JoinParams(ps) ==
    IF Len(ps) = 0 THEN <<>>
    ELSE ps[1][1] \o <<"=">> \o ps[1][2]
         \o (IF Len(ps) = 1 THEN <<>> ELSE <<"&">> \o JoinParams(Tail(ps)))

\* an encoding that leaves the spaces
EncodeWktCommasOnly(wkt) == Replace(wkt, ",", <<"%","2","C">>)

\* geometry.replace(',', '%2C').replace(' ', '+')
EncodeWkt(wkt) == Replace(Replace(wkt, ",", <<"%","2","C">>), " ", <<"+">>)

\* a build_request that accepts both filters, as if the first check were absent
GeometryConflictDropped(a) == FALSE

\* both geometrywkt_wgs84 and geometrywkt_laea are given
GeometryConflict(a) == a.geometrywkt_wgs84 # None /\ a.geometrywkt_laea # None

\* neither is given
GeometryMissing(a) == a.geometrywkt_wgs84 = None /\ a.geometrywkt_laea = None

\* an output_srid that is 'wgs84' for either filter
OutputSridWgsOnly(isWgs) == <<"w","g","s","8","4">>

\* output_srid: "wgs84" in the WGS84 branch, "laea" in the LAEA branch
OutputSrid(isWgs) == IF isWgs THEN <<"w","g","s","8","4">> ELSE <<"l","a","e","a">>

Built(o, awic, geom) == [outcome |-> o, awic |-> awic, geom |-> geom]

\* build_request: the outcome and the two requests it leaves in the object,
\* given the requests (awic0, geom0) the object held before
build_request(a, awic0, geom0) ==
    IF GeometryConflict(a)
    THEN Built(SysExit(<<>>), awic0, geom0)
    ELSE IF GeometryMissing(a)
    THEN Built(SysExit(<<>>), awic0, geom0)
    ELSE
    LET isWgs == a.geometrywkt_wgs84 # None
        geometry == IF isWgs THEN EncodeWkt(a.geometrywkt_wgs84)
                    ELSE EncodeWkt(a.geometrywkt_laea)
        url_param_geometry_key == IF isWgs THEN URL_PARAM_GEOMETRYWKT_WGS84
                                  ELSE URL_PARAM_GEOMETRYWKT_LAEA
        output_srid == OutputSrid(isWgs)
        url_params ==
            << <<url_param_geometry_key, geometry>> >>
            \o (IF TruthyVal(a.cloudCoverageMax)
                THEN << <<URL_PARAM_CLOUD_PERCENTAGE, Str(a.cloudCoverageMax)>> >>
                ELSE <<>>)
            \o (IF TruthyStr(a.startDate)
                THEN << <<URL_PARAM_OBSERVATIONDATE_AFTER, a.startDate>> >>
                ELSE <<>>)
            \o (IF TruthyStr(a.completionDate)
                THEN << <<URL_PARAM_OBSERVATIONDATE_BEFORE, a.completionDate>> >>
                ELSE <<>>)
    IN IF TruthyStr(a.startDate) /\ ~validate_Rfc3339(a.startDate)
       THEN Built(Raise("ValueError"), awic0, geom0)
       ELSE IF TruthyStr(a.completionDate) /\ ~validate_Rfc3339(a.completionDate)
       THEN Built(Raise("ValueError"), awic0, geom0)
       ELSE Built(Running,
                  URL_ROOT \o AWIC_PROC \o <<"?">> \o JoinParams(url_params),
                  URL_ROOT \o GEOMETRY_PROC \o <<"?">> \o url_param_geometry_key
                      \o <<"=">> \o geometry \o <<"&">>
                      \o URL_PARAM_OUTPUT_SRID_GEOMETRY \o <<"=">> \o output_srid)

\* ------------------------------------------------------------------------
\* HTTP responses (the environment)
\* ------------------------------------------------------------------------
\* conn = TRUE: requests.get raised a RequestException (no connection,
\* timeout).  Otherwise status is the status code of the final response and
\* body what response.json() finds: not JSON, an object (a sequence of
\* <<key, value>> pairs) or an array of items.  An item is a JSON object
\* (isObj) whose member 'j' is the array j (<<>>: no 'j', null or empty), or
\* a JSON scalar.
NoResponse == [conn |-> FALSE, status |-> 0, kind |-> "unset", dict |-> <<>>, items |-> <<>>]

ConnectionFailure == [conn |-> TRUE, status |-> 0, kind |-> "unset", dict |-> <<>>, items |-> <<>>]

Response(status, kind, dict, items) ==
    [conn |-> FALSE, status |-> status, kind |-> kind, dict |-> dict, items |-> items]

Obj(j) == [isObj |-> TRUE, j |-> j]

Scalar == [isObj |-> FALSE, j |-> <<>>]

StatusCodes == {200, 304, 414, 500}

ErrorDict == << <<"code", "0100E">>, <<"message", "error">> >>

Dicts == {ErrorDict, << <<"detail", "x">> >>, <<>>}

\* json_root.get('code')
DictGet(d, key) ==
    IF \E i \in 1..Len(d) : d[i][1] = key
    THEN d[CHOOSE i \in 1..Len(d) : d[i][1] = key][2]
    ELSE "None"

SeqsUpTo(S, n) == UNION {[1..k -> S] : k \in 0..n}

Responses(Items, n) ==
    {ConnectionFailure}
    \cup {Response(s, "notjson", <<>>, <<>>) : s \in StatusCodes}
    \cup {Response(s, "dict", d, <<>>) : s \in StatusCodes, d \in Dicts}
    \cup {Response(s, "list", <<>>, it) : s \in StatusCodes, it \in SeqsUpTo(Items, n)}

\* a geometry record: id, geometry, basin_name, eu_hydro_id, object_nam, area, river_km
GeometryRaw == <<PyInt(7), PyStr(<<"P","O","I","N","T","(","1"," ","2",")">>), PyStr(<<"D","a","n","u","b","e">>), PyStr(<<"R","1">>),
                 PyStr(<<"D","u","n","a","j">>), PyInt(12), PyInt(3)>>

GeometryItems == {Obj(GeometryRaw), Obj(<<>>), Scalar}

\* a raw observation: river_km_id, date, time, nine fields, mission code
AwicRaw(date, time, mission) ==
    <<PyStr(<<"1","2","3","4","5">>), date, time, PyInt(10), PyInt(20), PyInt(30), PyInt(15),
      PyInt(5), PyInt(20), PyStr(<<"A">>), PyInt(40), PyInt(60)>> \o mission

GoodRaw == AwicRaw(PyStr(<<"2","0","2","5","0","1","1","5">>), PyInt(93000), <<PyInt(1)>>)

BadRaw == AwicRaw(PyStr(<<"2","0","2","5","0","2","3","0">>), PyInt(93000), <<PyInt(1)>>)

AwicItems == {Obj(GoodRaw), Obj(BadRaw), Obj(<<>>), Scalar}

\* ------------------------------------------------------------------------
\* Files
\* ------------------------------------------------------------------------
FileNames == {"geometries.csv", "awic.csv", "AWIC_MTD.xml"}

NoFile == [exists |-> FALSE, lines |-> <<>>]

File(lines) == [exists |-> TRUE, lines |-> lines]

OutDir == <<"/","o","u","t">>

\* os.path.join(dir, name)
PathJoin(dir, name) == dir \o <<"/">> \o name

AwicHeader == <<"i","d",";","g","e","o","m","e","t","r","i","e","s","_","i","d",";","d","a","t","e","t","i","m","e",";","w","a","t","e","r","_","p","e","r","c",";","i","c","e","_","p","e","r","c",";","o","t","h","e","r","_","p","e","r","c",";","c","l","o","u","d","_","p","e","r","c",";","s","h","d","w","_","p","e","r","c",";","n","d","_","p","e","r","c",";","q","a",";","s","1","_","p","e","r","c",";","s","2","_","p","e","r","c",";","s","o","u","r","c","e">>

GeometriesHeader == <<"i","d",";","g","e","o","m","e","t","r","y",";","b","a","s","i","n","_","n","a","m","e",";","e","u","_","h","y","d","r","o","_","i","d",";","o","b","j","e","c","t","_","n","a","m",";","a","r","e","a",";","r","i","v","e","r","_","k","m">>

\* ET.tostring(AwicRequest.METADATA_URL, encoding='utf8', method='xml').decode()
MetadataLines == << <<"<","?","x","m","l"," ","v","e","r","s","i","o","n","=","'","1",".","0","'"," ","e","n","c","o","d","i","n","g","=","'","u","t","f","8","'","?",">">>,
                    <<"<","M","T","_","M","e","t","a","d","a","t","a"," ","u","r","l","=","\"","h","t","t","p","s",":","/","/","s","d","i",".","e","e","a",".","e","u","r","o","p","a",".","e","u","/","c","a","t","a","l","o","g","u","e","/","s","r","v","/","e","n","g","/","c","a","t","a","l","o","g",".","s","e","a","r","c","h","#","/","m","e","t","a","d","a","t","a","/","5","7","5","2","e","8","b","5","-","e","c","d","a","-","4","0","1","3","-","8","e","b","9","-","e","2","7","f","8","5","1","5","b","8","7","e","\""," ","/",">">> >>

\* ';'.join(str(x) for x in p)
RECURSIVE JoinLine(_)
JoinLine(p) ==
    IF Len(p) = 0 THEN <<>>
    ELSE Str(p[1]) \o (IF Len(p) = 1 THEN <<>> ELSE <<";">> \o JoinLine(Tail(p)))

CsvLines(header, rows) == <<header>> \o [i \in 1..Len(rows) |-> JoinLine(rows[i])]

\* a test that forgets 'csv_and_variable'
IsCsvModeCsvOnly(mode) == mode = "csv"

IsCsvMode(mode) == mode \in {"csv", "csv_and_variable"}

\* ------------------------------------------------------------------------
\* request_geometry and request_page, up to their file writes
\* ------------------------------------------------------------------------
\* the loop over json_root of request_geometry: item.get('j') of every item
RECURSIVE GeometryItemsOf(_)
GeometryItemsOf(items) ==
    IF Len(items) = 0 THEN Returned(<<>>)
    ELSE IF ~Head(items).isObj THEN Raised("AttributeError")
    ELSE LET rest == GeometryItemsOf(Tail(items))
         IN IF ~rest.ok THEN rest
            ELSE Returned((IF Head(items).j # <<>> THEN <<Head(items).j>> ELSE <<>>)
                          \o rest.val)

\* request_geometry from the response to the list geometries: either the
\* list, or the way the run ends
parse_geometry(r) ==
    IF r.conn THEN [end |-> SysExit(<<500>>), val |-> <<>>]
    ELSE IF r.status = 414 THEN [end |-> SysExit(<<500>>), val |-> <<>>]
    ELSE IF r.kind = "notjson" THEN [end |-> SysExit(<<500>>), val |-> <<>>]
    ELSE IF r.kind = "dict" /\ DictGet(r.dict, "code") = "0100E"
         THEN [end |-> SysExit(<<413>>), val |-> <<>>]
    ELSE IF r.kind = "dict"      \* iterating a dict yields its keys: str has no get
         THEN IF Len(r.dict) > 0 THEN [end |-> Raise("AttributeError"), val |-> <<>>]
              ELSE [end |-> Running, val |-> <<>>]
    ELSE LET g == GeometryItemsOf(r.items)
         IN IF g.ok THEN [end |-> Running, val |-> g.val]
            ELSE [end |-> Raise(g.exc), val |-> <<>>]

\* a raise_for_status that raises for server errors only
raise_for_status_5xx(status) == 500 <= status /\ status < 600

\* response.raise_for_status() raises
raise_for_status(status) == 400 <= status /\ status < 600

\* a loop that skips a record format_awic_product rejects
RECURSIVE AwicItemsOfSkipping(_, _)
AwicItemsOfSkipping(items, i) ==
    IF Len(items) = 0 THEN Returned(<<>>)
    ELSE IF ~Head(items).isObj THEN Raised("AttributeError")
    ELSE IF Head(items).j = <<>> THEN AwicItemsOfSkipping(Tail(items), i + 1)
    ELSE LET formatted == format_awic_product(Head(items).j, i)
             rest == AwicItemsOfSkipping(Tail(items), i + 1)
         IN IF ~rest.ok THEN rest
            ELSE IF ~formatted.ok THEN rest
            ELSE Returned(<<formatted.val>> \o rest.val)

\* the loop over enumerate(json_root) of request_page, from index i on
RECURSIVE AwicItemsOf(_, _)
AwicItemsOf(items, i) ==
    IF Len(items) = 0 THEN Returned(<<>>)
    ELSE IF ~Head(items).isObj THEN Raised("AttributeError")
    ELSE IF Head(items).j = <<>> THEN AwicItemsOf(Tail(items), i + 1)
    ELSE LET formatted == format_awic_product(Head(items).j, i)
         IN IF ~formatted.ok THEN formatted
            ELSE LET rest == AwicItemsOf(Tail(items), i + 1)
                 IN IF ~rest.ok THEN rest
                    ELSE Returned(<<formatted.val>> \o rest.val)

\* request_page: the list it returns, or the exception it lets through
request_page(r) ==
    IF r.conn THEN Returned(<<>>)
    ELSE IF raise_for_status(r.status) THEN Returned(<<>>)
    ELSE IF r.kind = "notjson" THEN Returned(<<>>)
    ELSE IF r.kind = "dict"
         THEN IF Len(r.dict) > 0 THEN Raised("AttributeError") ELSE Returned(<<>>)
    ELSE AwicItemsOf(r.items, 0)

\* ------------------------------------------------------------------------
\* Inputs
\* ------------------------------------------------------------------------
Args(startDate, completionDate, wgs84, laea, cloud) ==
    [startDate |-> startDate, completionDate |-> completionDate,
     geometrywkt_wgs84 |-> wgs84, geometrywkt_laea |-> laea,
     cloudCoverageMax |-> cloud]

ScenarioStart == <<"2","0","2","5","-","0","1","-","1","5">>

ScenarioCompletion == <<"2","0","2","5","-","0","1","-","2","5">>

ScenarioPoint == <<"P","O","I","N","T","(","2","2",".","4","5","7","9","4","0"," ","4","9",".","3","6","7","8","5","4",")">>

LaeaPoint == <<"P","O","I","N","T","(","5","0","0","0","0","0","0"," ","3","0","0","0","0","0","0",")">>

\* the arguments of the runs
RunArgs == {Args(ScenarioStart, ScenarioCompletion, w, l, PyNone) :
                w \in {None, ScenarioPoint}, l \in {None, LaeaPoint}}

\* the arguments of the build_request calls
BuildArgs ==
    {Args(s, c, w, l, cc) :
        s \in {None, <<>>, ScenarioStart, <<"2","0","2","5","-","1","3","-","0","1">>, <<"2","0","2","5","-","1","-","5">>},
        c \in {None, ScenarioCompletion, <<"2","5","-","0","1","-","2","0","2","5">>},
        w \in {None, ScenarioPoint, <<"P","O","L","Y","G","O","N","(","(","1"," ","2",",","3"," ","4",",","5"," ","6",",","1"," ","2",")",")">>},
        l \in {None, LaeaPoint},
        cc \in {PyNone, PyInt(0), PyInt(50), PyInt(100), PyStr(<<"0">>)}}

ReturnModes == {"csv", "variable", "csv_and_variable", "xml"}

FmtDates == {PyStr(<<"2","0","2","5","0","1","1","5">>), PyInt(20250115), PyStr(<<"2","0","2","4","0","2","2","9">>),
             PyStr(<<"2","0","2","5","0","2","2","9">>), PyStr(<<"2","0","2","5","1","3","0","1">>), PyStr(<<"2","0","2","5","1","1","5">>),
             PyStr(<<"2","0","2","5","-","0","1","-","1","5">>), PyNone}

FmtTimes == {PyInt(93000), PyInt(0), PyInt(235959), PyInt(240000), PyInt(96000),
             PyInt(1234567), PyStr(<<"0","9","3","0","0","0">>), PyStr(<<"2","3","5","9","5","9">>), PyNone}

FmtMissions == {<<>>, <<PyStr(<<"1">>)>>, <<PyNone>>}
               \cup {<<PyInt(c)>> : c \in 0..MaxMissionCode}

FmtRaws == {AwicRaw(d, t, m) : d \in FmtDates, t \in FmtTimes, m \in FmtMissions}
           \cup {SubSeq(GoodRaw, 1, n) : n \in {2, 5}}

\* an optional list: None, or the list
NoneList == [isNone |-> TRUE, list |-> <<>>]

SomeList(l) == [isNone |-> FALSE, list |-> l]

NoResult == [geometries |-> NoneList, awic_products |-> NoneList]

NoFmt == [awic |-> <<>>, index |-> 0]

\* ------------------------------------------------------------------------
\* Initial states
\* ------------------------------------------------------------------------
InitObject ==
    /\ awic_http_request = None
    /\ geometry_http_request = None
    /\ awic_result_file = None
    /\ geomResponse = NoResponse
    /\ awicResponse = NoResponse
    /\ geometries = NoneList
    /\ awic_products = NoneList
    /\ files = [f \in FileNames |-> NoFile]
    /\ log = <<>>
    /\ outcome = Running
    /\ result = NoResult

\* a run: download_awic_products, or the class used directly
Init ==
    /\ pc = "start"
    /\ returnMode \in ReturnModes
    /\ outputDir \in {None, OutDir}
    /\ requestGeometries \in BOOLEAN
    /\ args \in RunArgs
    /\ InitObject
    /\ fmtIn = NoFmt
    /\ fmtOut = Raised("")

\* one build_request call on a fresh object
InitBuild ==
    /\ pc = "build"
    /\ returnMode = "variable"
    /\ outputDir = None
    /\ requestGeometries = FALSE
    /\ args \in BuildArgs
    /\ InitObject
    /\ fmtIn = NoFmt
    /\ fmtOut = Raised("")

\* one format_awic_product call
InitFormat ==
    /\ pc = "format"
    /\ returnMode = "variable"
    /\ outputDir = None
    /\ requestGeometries = FALSE
    /\ args = Args(None, None, None, None, PyNone)
    /\ InitObject
    /\ fmtIn \in {[awic |-> a, index |-> i] : a \in FmtRaws, i \in 0..MaxIndex}
    /\ fmtOut = Raised("")

\* ------------------------------------------------------------------------
\* Actions
\* ------------------------------------------------------------------------
\* the run ends by sys.exit or by an exception
Exit(o) == pc' = "exited" /\ outcome' = o

\* AwicRequest.__init__ followed by build_request, then execute_request
InitAndBuild(makedirsFails) ==
    IF outputDir # None /\ returnMode # "variable" /\ makedirsFails
    THEN /\ Exit(Raise("OSError"))
         /\ UNCHANGED <<awic_http_request, geometry_http_request>>
    ELSE LET b == build_request(args, None, None)
         IN /\ awic_http_request' = b.awic
            /\ geometry_http_request' = b.geom
            /\ IF b.outcome = Running
               THEN pc' = "execute" /\ UNCHANGED outcome
               ELSE Exit(b.outcome)

\* download_awic_products, up to its call of execute_request
DownloadAwicProducts ==
    /\ pc = "start"
    /\ \E makedirsFails \in BOOLEAN :
        IF returnMode \notin {"csv", "csv_and_variable", "variable"}
        THEN Exit(Raise("ValueError"))
             /\ UNCHANGED <<awic_http_request, geometry_http_request>>
        ELSE IF IsCsvMode(returnMode) /\ outputDir = None
        THEN Exit(Raise("ValueError"))
             /\ UNCHANGED <<awic_http_request, geometry_http_request>>
        ELSE InitAndBuild(makedirsFails)
    /\ UNCHANGED <<returnMode, outputDir, requestGeometries, args, awic_result_file,
                   geomResponse, awicResponse, geometries, awic_products, files,
                   log, result, fmtIn, fmtOut>>

\* the class used directly: AwicRequest(outputDir, returnMode), build_request
\* or not, then execute_request
ClassUse ==
    /\ pc = "start"
    /\ \E makedirsFails \in BOOLEAN, build \in BOOLEAN :
        IF build THEN InitAndBuild(makedirsFails)
        ELSE IF outputDir # None /\ returnMode # "variable" /\ makedirsFails
        THEN Exit(Raise("OSError"))
             /\ UNCHANGED <<awic_http_request, geometry_http_request>>
        ELSE /\ pc' = "execute"
             /\ UNCHANGED <<outcome, awic_http_request, geometry_http_request>>
    /\ UNCHANGED <<returnMode, outputDir, requestGeometries, args, awic_result_file,
                   geomResponse, awicResponse, geometries, awic_products, files,
                   log, result, fmtIn, fmtOut>>

\* an execute_request that asks for the geometries whatever the flag
AfterChecksAlways(request_geometries) == "geometry"

\* execute_request: request_geometry is called only if request_geometries
AfterChecks(request_geometries) == IF request_geometries THEN "geometry" ELSE "page"

\* execute_request, its checks that the requests are set
ExecuteRequest ==
    /\ pc = "execute"
    /\ IF awic_http_request = None THEN Exit(SysExit(<<>>))
       ELSE IF geometry_http_request = None THEN Exit(SysExit(<<>>))
       ELSE /\ pc' = AfterChecks(requestGeometries)
            /\ UNCHANGED outcome
    /\ UNCHANGED <<returnMode, outputDir, requestGeometries, args, awic_http_request,
                   geometry_http_request, awic_result_file, geomResponse,
                   awicResponse, geometries, awic_products, files, log, result,
                   fmtIn, fmtOut>>

\* request_geometry, called by execute_request
RequestGeometry ==
    /\ pc = "geometry"
    /\ \E r \in Responses(GeometryItems, MaxGeomItems), ioError \in BOOLEAN :
        LET g == parse_geometry(r)
            got == Append(log, "GET geometry")
        IN /\ geomResponse' = r
           /\ IF g.end # Running
              THEN Exit(g.end) /\ log' = got /\ UNCHANGED <<files, geometries>>
              ELSE IF ~IsCsvMode(returnMode)
              THEN /\ geometries' = SomeList(g.val)
                   /\ pc' = "page"
                   /\ log' = got
                   /\ UNCHANGED <<files, outcome>>
              ELSE IF outputDir = None \/ outputDir = <<>> \/ ioError
              THEN Exit(SysExit(<<500>>)) /\ log' = got
                   /\ UNCHANGED <<files, geometries>>
              ELSE /\ files' = [files EXCEPT !["geometries.csv"] =
                                    File(CsvLines(GeometriesHeader, g.val))]
                   /\ log' = Append(got, "write geometries.csv")
                   /\ geometries' = SomeList(g.val)
                   /\ pc' = "page"
                   /\ UNCHANGED outcome
    /\ UNCHANGED <<returnMode, outputDir, requestGeometries, args, awic_http_request,
                   geometry_http_request, awic_result_file, awicResponse,
                   awic_products, result, fmtIn, fmtOut>>

\* request_page, called by execute_request
RequestPage ==
    /\ pc = "page"
    /\ \E r \in Responses(AwicItems, MaxItems) :
        LET p == request_page(r)
        IN /\ awicResponse' = r
           /\ log' = Append(log, "GET awic")
           /\ IF p.ok
              THEN /\ awic_products' = SomeList(p.val)
                   /\ pc' = "write_awic"
                   /\ UNCHANGED outcome
              ELSE Exit(Raise(p.exc)) /\ UNCHANGED awic_products
    /\ UNCHANGED <<returnMode, outputDir, requestGeometries, args, awic_http_request,
                   geometry_http_request, awic_result_file, geomResponse,
                   geometries, files, result, fmtIn, fmtOut>>

\* execute_request: save the AWIC results to awic.csv
WriteAwicCsv ==
    /\ pc = "write_awic"
    /\ \E ioError \in BOOLEAN :
        IF ~IsCsvMode(returnMode)
        THEN pc' = "write_mtd" /\ UNCHANGED <<awic_result_file, files, log, outcome>>
        ELSE IF outputDir = None             \* os.path.join(None, "awic.csv")
        THEN Exit(Raise("TypeError")) /\ UNCHANGED <<awic_result_file, files, log>>
        ELSE /\ awic_result_file' = PathJoin(outputDir, <<"a","w","i","c",".","c","s","v">>)
             /\ IF ioError
                THEN Exit(SysExit(<<>>)) /\ UNCHANGED <<files, log>>
                ELSE /\ files' = [files EXCEPT !["awic.csv"] =
                                      File(CsvLines(AwicHeader, awic_products.list))]
                     /\ log' = Append(log, "write awic.csv")
                     /\ pc' = "write_mtd"
                     /\ UNCHANGED outcome
    /\ UNCHANGED <<returnMode, outputDir, requestGeometries, args, awic_http_request,
                   geometry_http_request, geomResponse, awicResponse, geometries,
                   awic_products, result, fmtIn, fmtOut>>

\* execute_request: write AWIC_MTD.xml and return
WriteMetadata ==
    /\ pc = "write_mtd"
    /\ \E ioError \in BOOLEAN :
        IF IsCsvMode(returnMode) /\ ioError
        THEN Exit(SysExit(<<>>)) /\ UNCHANGED <<files, log, result>>
        ELSE /\ IF IsCsvMode(returnMode)
                THEN /\ files' = [files EXCEPT !["AWIC_MTD.xml"] = File(MetadataLines)]
                     /\ log' = Append(log, "write AWIC_MTD.xml")
                ELSE UNCHANGED <<files, log>>
             /\ result' = IF returnMode = "csv" THEN NoResult
                          ELSE [geometries |-> geometries,
                                awic_products |-> awic_products]
             /\ pc' = "done"
             /\ outcome' = Return
    /\ UNCHANGED <<returnMode, outputDir, requestGeometries, args, awic_http_request,
                   geometry_http_request, awic_result_file, geomResponse,
                   awicResponse, geometries, awic_products, fmtIn, fmtOut>>

\* build_request on its own
BuildCall ==
    /\ pc = "build"
    /\ LET b == build_request(args, awic_http_request, geometry_http_request)
       IN /\ awic_http_request' = b.awic
          /\ geometry_http_request' = b.geom
          /\ outcome' = b.outcome
    /\ pc' = "built"
    /\ UNCHANGED <<returnMode, outputDir, requestGeometries, args, awic_result_file,
                   geomResponse, awicResponse, geometries, awic_products, files,
                   log, result, fmtIn, fmtOut>>

\* format_awic_product on its own
FormatCall ==
    /\ pc = "format"
    /\ fmtOut' = format_awic_product(fmtIn.awic, fmtIn.index)
    /\ pc' = "formatted"
    /\ UNCHANGED <<returnMode, outputDir, requestGeometries, args, awic_http_request,
                   geometry_http_request, awic_result_file, geomResponse,
                   awicResponse, geometries, awic_products, files, log, outcome,
                   result, fmtIn>>

Next ==
    \/ DownloadAwicProducts
    \/ ClassUse
    \/ ExecuteRequest
    \/ RequestGeometry
    \/ RequestPage
    \/ WriteAwicCsv
    \/ WriteMetadata

NextBuild == BuildCall

NextFormat == FormatCall

Spec == Init /\ [][Next]_vars

SpecBuild == InitBuild /\ [][NextBuild]_vars

SpecFormat == InitFormat /\ [][NextFormat]_vars

\* ------------------------------------------------------------------------
\* Helpers of the properties
\* ------------------------------------------------------------------------
\* sub occurs in s
Contains(s, sub) ==
    \E i \in 0..(Len(s) - Len(sub)) : SubSeq(s, i + 1, i + Len(sub)) = sub

\* the positions of an event in the log
Positions(e) == {i \in 1..Len(log) : log[i] = e}

Supplied(x) == x # None

\* ------------------------------------------------------------------------
\* C1: build_request given both geometrywkt_wgs84 and geometrywkt_laea, or
\* neither, ends the run by sys.exit and leaves awic_http_request and
\* geometry_http_request None, whatever the other arguments; a request is
\* set only if exactly one of the two was given.
\* ------------------------------------------------------------------------
C1_BothOrNeitherFails ==
    /\ (pc = "built" /\ Supplied(args.geometrywkt_wgs84) = Supplied(args.geometrywkt_laea))
           => /\ outcome.kind = "SystemExit"
              /\ awic_http_request = None
              /\ geometry_http_request = None
    /\ (awic_http_request # None \/ geometry_http_request # None)
           => Supplied(args.geometrywkt_wgs84) # Supplied(args.geometrywkt_laea)

C1_Witness ==
    /\ pc = "built"
    /\ Supplied(args.geometrywkt_wgs84) /\ Supplied(args.geometrywkt_laea)
    /\ args.startDate = ScenarioStart
    /\ args.cloudCoverageMax = PyInt(50)
    /\ outcome.kind = "SystemExit"
    /\ awic_http_request = None

\* ------------------------------------------------------------------------
\* C2: execute_request issues at most one geometry GET and at most one
\* observation GET; the geometry GET is issued only if geometries were
\* requested, and then it and the writing of geometries.csv come before the
\* observation GET; awic.csv and AWIC_MTD.xml are written only after the
\* observation GET has returned.
\* ------------------------------------------------------------------------
C2_SequentialOrder ==
    /\ Cardinality(Positions("GET geometry")) <= 1
    /\ Cardinality(Positions("GET awic")) <= 1
    /\ ~requestGeometries => Positions("GET geometry") = {}
    /\ \A k \in Positions("GET awic") :
          /\ requestGeometries => \E g \in Positions("GET geometry") : g < k
          /\ (requestGeometries /\ returnMode \in {"csv", "csv_and_variable"})
                => \E w \in Positions("write geometries.csv") : w < k
          /\ \A j \in 1..Len(log) : log[j] \in {"GET geometry", "write geometries.csv"}
                => j < k
    /\ \A w \in Positions("write awic.csv") \cup Positions("write AWIC_MTD.xml") :
          /\ \E k \in Positions("GET awic") : k < w
          /\ awicResponse # NoResponse
    /\ \A f \in {"awic.csv", "AWIC_MTD.xml"} :
          files[f].exists => awicResponse # NoResponse

C2_Witness ==
    /\ pc = "done"
    /\ requestGeometries
    /\ log = <<"GET geometry", "write geometries.csv", "GET awic",
               "write awic.csv", "write AWIC_MTD.xml">>

\* ------------------------------------------------------------------------
\* What the documentation calls a valid date and time-of-day of a raw record
\* ------------------------------------------------------------------------
\* YYYYMMDD: eight digits naming a day of the calendar
ValidDate(v) ==
    /\ v.t \in {"int", "str"}
    /\ LET d == Str(v)
       IN /\ Len(d) = 8 /\ AllDigits(d)
          /\ StrToInt(SubSeq(d, 1, 4)) >= 1000
          /\ StrToInt(SubSeq(d, 5, 6)) \in 1..12
          /\ StrToInt(SubSeq(d, 7, 8)) \in
                 1..DaysInMonth(StrToInt(SubSeq(d, 1, 4)), StrToInt(SubSeq(d, 5, 6)))

\* HHMMSS once zero-padded to six digits
PaddedTime(v) == ZeroPad(Str(v), 6)

ValidTime(v) ==
    /\ v.t \in {"int", "str"}
    /\ (v.t = "str" => Len(v.s) = 6)
    /\ LET t == PaddedTime(v)
       IN /\ Len(t) = 6 /\ AllDigits(t)
          /\ StrToInt(SubSeq(t, 1, 2)) <= 23
          /\ StrToInt(SubSeq(t, 3, 4)) <= 59
          /\ StrToInt(SubSeq(t, 5, 6)) <= 59

\* YYYY-MM-DDTHH:MM:SS with the digits of the date and the time, verbatim
ExpectedTimestamp(date, time) ==
    LET d == Str(date)
        t == PaddedTime(time)
    IN SubSeq(d, 1, 4) \o <<"-">> \o SubSeq(d, 5, 6) \o <<"-">> \o SubSeq(d, 7, 8)
       \o <<"T">> \o SubSeq(t, 1, 2) \o <<":">> \o SubSeq(t, 3, 4) \o <<":">> \o SubSeq(t, 5, 6)

Is2xx(status) == 200 <= status /\ status <= 299

TextModes == {"csv", "csv_and_variable"}

\* ------------------------------------------------------------------------
\* C3: a failed observation GET degrades: request_page returns the empty
\* list, the run goes on to the output stage, and in the text-output modes
\* awic.csv holds the header line only.  The run can still end in the output
\* stage itself (a file that cannot be written, no output directory).
\*   C3_Original takes every non-2xx status for a failure, as the claim does.
\*   C3_Degrades takes the statuses raise_for_status rejects (4xx and 5xx).
\* ------------------------------------------------------------------------
C3_Degraded ==
    /\ awic_products = SomeList(<<>>)
    /\ pc \in {"write_awic", "write_mtd", "done", "exited"}
    /\ pc = "exited" => outcome \in {SysExit(<<>>), Raise("TypeError")}
    /\ pc = "done" => outcome = Return
    /\ (pc \in {"write_mtd", "done"} /\ returnMode \in TextModes)
           => files["awic.csv"] = File(<<AwicHeader>>)

C4_GeometryTransportFatal ==
    (/\ geomResponse # NoResponse
     /\ geomResponse.conn \/ ~Is2xx(geomResponse.status))
        => /\ pc = "exited"
           /\ ~files["geometries.csv"].exists
           /\ Positions("GET awic") = {}
           /\ geometries = NoneList

\* ------------------------------------------------------------------------
\* C5: a 2xx response of either GET whose JSON is an object with code
\* "0100E" ends the run with a non-zero exit status that no other failure
\* uses, and awic.csv is not written.
\* ------------------------------------------------------------------------
C5_HasErrorCode(r) == r.kind = "dict" /\ DictGet(r.dict, "code") = "0100E"

C5_IsAppError(r) == ~r.conn /\ Is2xx(r.status) /\ C5_HasErrorCode(r)

\* the exit statuses of the failures that are not the application error
C5_OtherFailureStatuses ==
    {ProcessStatus(parse_geometry(r).end) :
        r \in {x \in Responses(GeometryItems, MaxGeomItems) :
                  ~C5_HasErrorCode(x) /\ parse_geometry(x).end # Running}}
    \cup {ProcessStatus(Raise(request_page(r).exc)) :
        r \in {x \in Responses(AwicItems, MaxItems) :
                  ~C5_HasErrorCode(x) /\ ~request_page(x).ok}}
    \cup {ProcessStatus(SysExit(<<500>>)), ProcessStatus(SysExit(<<>>))}

C5_AppErrorDistinctExit ==
    (C5_IsAppError(geomResponse) \/ C5_IsAppError(awicResponse))
        => /\ pc = "exited"
           /\ ProcessStatus(outcome) # 0
           /\ ProcessStatus(outcome) \notin C5_OtherFailureStatuses
           /\ ~files["awic.csv"].exists

\* ------------------------------------------------------------------------
\* C6: when the normalisation pass of request_page meets a record with a
\* malformed date or time-of-day, wherever it stands, the run ends with an
\* exception: no list of records is returned and awic.csv is not written.
\* A list that is returned has one record for every raw record of the
\* response, and awic.csv one line for each.
\* ------------------------------------------------------------------------
C6_PassRuns(r) == ~r.conn /\ r.status \notin 400..599 /\ r.kind = "list"

C6_Malformed(item) ==
    /\ item.isObj
    /\ Len(item.j) >= 3
    /\ ~(ValidDate(item.j[2]) /\ ValidTime(item.j[3]))

C6_RawRecords(r) == {i \in 1..Len(r.items) : r.items[i].isObj /\ r.items[i].j # <<>>}

C7_TimestampRoundTrip ==
    (/\ pc = "formatted"
     /\ Len(fmtIn.awic) \in {12, 13}
     /\ ValidDate(fmtIn.awic[2])
     /\ ValidTime(fmtIn.awic[3]))
        => /\ fmtOut.ok
           /\ Len(fmtOut.val) = 13
           /\ SubSeq(fmtOut.val, 1, 12) =
                  <<PyInt(fmtIn.index + 1), fmtIn.awic[1],
                    PyStr(ExpectedTimestamp(fmtIn.awic[2], fmtIn.awic[3]))>>
                  \o SubSeq(fmtIn.awic, 4, 12)
           /\ fmtOut.val[13].t = "str"

\* ------------------------------------------------------------------------
\* C8: the label of a record that format_awic_product accepts depends on the
\* thirteenth raw field only: "Sentinel-1 Sentinel-2" for 0, "Sentinel-1"
\* for 1, "Sentinel-2" for 2, the empty string for any other value and for a
\* record of 12 fields; whatever that field, a record with a valid date and
\* a valid numeric time is accepted and has 13 fields.
\* ------------------------------------------------------------------------
C8_Code(awic) == IF Len(awic) >= 13 THEN awic[13] ELSE PyNone

C8_Label(code) ==
    IF code = PyInt(0) THEN <<"S","e","n","t","i","n","e","l","-","1"," ","S","e","n","t","i","n","e","l","-","2">>
    ELSE IF code = PyInt(1) THEN <<"S","e","n","t","i","n","e","l","-","1">>
    ELSE IF code = PyInt(2) THEN <<"S","e","n","t","i","n","e","l","-","2">>
    ELSE <<>>

C8_MissionLabelTotal ==
    pc = "formatted" =>
        /\ (/\ Len(fmtIn.awic) \in {12, 13}
            /\ ValidDate(fmtIn.awic[2])
            /\ fmtIn.awic[3].t = "int" /\ ValidTime(fmtIn.awic[3]))
               => fmtOut.ok
        /\ fmtOut.ok
               => /\ Len(fmtOut.val) = 3 + (IF Len(fmtIn.awic) < 12
                                            THEN Len(fmtIn.awic) - 3 ELSE 9) + 1
                  /\ fmtOut.val[Len(fmtOut.val)] = PyStr(C8_Label(C8_Code(fmtIn.awic)))

C8_Witness ==
    /\ pc = "formatted"
    /\ Len(fmtIn.awic) = 13
    /\ fmtIn.awic[13] = PyInt(3)
    /\ fmtOut.ok
    /\ fmtOut.val[13] = PyStr(<<>>)

\* ------------------------------------------------------------------------
\* C9: build_request for 2025-01-15 to 2025-01-25, the WGS84 filter
\* POINT(22.457940 49.367854) and no cloud-coverage ceiling.
\*   C9_Original: the observation query contains the filter with '+' for the
\*   space and the parentheses percent-encoded, then startdate, then
\*   completiondate.
\*   C9_ScenarioQuery: the same with the parentheses left as they are; the
\*   filter is the first parameter of the query.
\* ------------------------------------------------------------------------
C9_Scenario ==
    /\ pc = "built"
    /\ args = Args(ScenarioStart, ScenarioCompletion, ScenarioPoint, None, PyNone)

C9_Original ==
    C9_Scenario =>
        Contains(awic_http_request,
                 <<"g","e","o","m","e","t","r","y","w","k","t","_","w","g","s","8","4","=","P","O","I","N","T","%","2","8","2","2",".","4","5","7","9","4","0","+","4","9",".","3","6","7","8","5","4","%","2","9","&","s","t","a","r","t","d","a","t","e","=","2","0","2","5","-","0","1","-","1","5","&","c","o","m","p","l","e","t","i","o","n","d","a","t","e","=","2","0","2","5","-","0","1","-","2","5">>)

C9_ScenarioQuery ==
    C9_Scenario =>
        /\ Contains(awic_http_request,
                    <<"g","e","o","m","e","t","r","y","w","k","t","_","w","g","s","8","4","=","P","O","I","N","T","(","2","2",".","4","5","7","9","4","0","+","4","9",".","3","6","7","8","5","4",")","&","s","t","a","r","t","d","a","t","e","=","2","0","2","5","-","0","1","-","1","5","&","c","o","m","p","l","e","t","i","o","n","d","a","t","e","=","2","0","2","5","-","0","1","-","2","5">>)
        /\ Contains(awic_http_request, <<"g","e","t","_","a","w","i","c","?","g","e","o","m","e","t","r","y","w","k","t","_","w","g","s","8","4","=">>)

C9_Witness ==
    /\ C9_Scenario
    /\ outcome = Running
    /\ awic_http_request # None

\* ------------------------------------------------------------------------
\* C10: in a run that completes, awic.csv and AWIC_MTD.xml are written
\* exactly when the mode is 'csv' or 'csv_and_variable', and geometries.csv
\* exactly when moreover geometries were requested; in mode 'variable' no
\* file is ever written.
\* ------------------------------------------------------------------------
C10_FilesByMode ==
    /\ pc = "done" =>
          /\ files["awic.csv"].exists <=> returnMode \in {"csv", "csv_and_variable"}
          /\ files["AWIC_MTD.xml"].exists <=> returnMode \in {"csv", "csv_and_variable"}
          /\ files["geometries.csv"].exists
                <=> (requestGeometries /\ returnMode \in {"csv", "csv_and_variable"})
    /\ returnMode = "variable" =>
          /\ \A f \in FileNames : ~files[f].exists
          /\ \A i \in 1..Len(log) : log[i] \in {"GET geometry", "GET awic"}

C10_Witness ==
    /\ pc = "done"
    /\ returnMode = "csv_and_variable"
    /\ requestGeometries
    /\ \A f \in FileNames : files[f].exists
    /\ Len(files["awic.csv"].lines) = 3

\* ------------------------------------------------------------------------
\* Reading a request back: its path and its parameters
\* ------------------------------------------------------------------------
\* the first position of the character c in s, 0 if there is none
FirstPos(s, c) ==
    IF \E i \in 1..Len(s) : s[i] = c
    THEN CHOOSE i \in 1..Len(s) : s[i] = c /\ \A j \in 1..(i - 1) : s[j] # c
    ELSE 0

\* the pieces of s between the occurrences of the character c
RECURSIVE SplitOn(_, _)
SplitOn(s, c) ==
    LET p == FirstPos(s, c)
    IN IF p = 0 THEN <<s>>
       ELSE <<SubSeq(s, 1, p - 1)>> \o SplitOn(SubSeq(s, p + 1, Len(s)), c)

UrlPath(url) == SubSeq(url, 1, FirstPos(url, "?") - 1)

\* the <<key, value>> pairs of the query of a URL, in order
UrlParams(url) ==
    LET q == SplitOn(SubSeq(url, FirstPos(url, "?") + 1, Len(url)), "&")
    IN [i \in 1..Len(q) |->
           <<SubSeq(q[i], 1, FirstPos(q[i], "=") - 1),
             SubSeq(q[i], FirstPos(q[i], "=") + 1, Len(q[i]))>>]

\* the text an encoded value stands for: '+' is a space, %2C a comma
RECURSIVE DecodeValue(_)
DecodeValue(s) ==
    IF Len(s) = 0 THEN <<>>
    ELSE IF Len(s) >= 3 /\ SubSeq(s, 1, 3) = <<"%","2","C">>
         THEN <<",">> \o DecodeValue(SubSeq(s, 4, Len(s)))
    ELSE (IF Head(s) = "+" THEN <<" ">> ELSE <<Head(s)>>) \o DecodeValue(Tail(s))

\* ------------------------------------------------------------------------
\* C11: after a build_request that sets the requests, the geometry query has
\* exactly two parameters: the first is the first parameter of the
\* observation query, key and encoded value alike (geometrywkt_wgs84 or
\* geometrywkt_laea, whichever was supplied, with a value that decodes to the
\* supplied WKT), the second is output_srid, 'wgs84' or 'laea' accordingly;
\* it has no date and no cloud-coverage parameter.  build_request issues no
\* GET and writes no file.
\* ------------------------------------------------------------------------
C11_SharedFilter ==
    pc = "built" =>
        /\ log = <<>>
        /\ geomResponse = NoResponse /\ awicResponse = NoResponse
        /\ \A f \in FileNames : ~files[f].exists
        /\ outcome = Running =>
              LET ap == UrlParams(awic_http_request)
                  gp == UrlParams(geometry_http_request)
                  wgs == args.geometrywkt_wgs84 # None
              IN /\ UrlPath(geometry_http_request)
                        = <<"h","t","t","p","s",":","/","/","w","s","i",".","l","a","n","d",".","c","o","p","e","r","n","i","c","u","s",".","e","u","/","a","w","i","c","/","g","e","t","_","g","e","o","m","e","t","r","i","e","s">>
                 /\ UrlPath(awic_http_request)
                        = <<"h","t","t","p","s",":","/","/","w","s","i",".","l","a","n","d",".","c","o","p","e","r","n","i","c","u","s",".","e","u","/","a","w","i","c","/","g","e","t","_","a","w","i","c">>
                 /\ Len(gp) = 2
                 /\ gp[1] = ap[1]
                 /\ gp[1][1] = (IF wgs THEN <<"g","e","o","m","e","t","r","y","w","k","t","_","w","g","s","8","4">>
                                ELSE <<"g","e","o","m","e","t","r","y","w","k","t","_","l","a","e","a">>)
                 /\ DecodeValue(gp[1][2]) = (IF wgs THEN args.geometrywkt_wgs84
                                             ELSE args.geometrywkt_laea)
                 /\ \A i \in 1..Len(gp[1][2]) : gp[1][2][i] \notin {",", " "}
                 /\ gp[2] = <<<<"o","u","t","p","u","t","_","s","r","i","d">>,
                              IF wgs THEN <<"w","g","s","8","4">> ELSE <<"l","a","e","a">>>>
                 /\ \A i \in 1..Len(gp) :
                        gp[i][1] \notin {<<"s","t","a","r","t","d","a","t","e">>, <<"c","o","m","p","l","e","t","i","o","n","d","a","t","e">>,
                                         <<"c","l","o","u","d","c","o","v","e","r","a","g","e","m","a","x">>}

C11_Witness ==
    /\ pc = "built"
    /\ outcome = Running
    /\ args.geometrywkt_wgs84 = None
    /\ args.geometrywkt_laea = LaeaPoint
    /\ args.startDate = ScenarioStart
    /\ args.cloudCoverageMax = PyInt(50)
    /\ Len(UrlParams(awic_http_request)) = 3
    /\ Len(UrlParams(geometry_http_request)) = 2

\* ------------------------------------------------------------------------
\* C12: after a build_request that sets the requests, the observation query
\* has a cloudcoveragemax parameter exactly when a cloud-coverage ceiling
\* was supplied, and for a supplied integer ceiling, 0 included, its value
\* is that integer.
\* ------------------------------------------------------------------------
C12_CloudParams ==
    LET ap == UrlParams(awic_http_request)
    IN {i \in 1..Len(ap) : ap[i][1] = <<"c","l","o","u","d","c","o","v","e","r","a","g","e","m","a","x">>}

C12_CloudParamIffSupplied ==
    (pc = "built" /\ outcome = Running) =>
        /\ (C12_CloudParams # {}) <=> (args.cloudCoverageMax # PyNone)
        /\ args.cloudCoverageMax.t = "int" =>
              \E i \in C12_CloudParams :
                  UrlParams(awic_http_request)[i][2] = IntToStr(args.cloudCoverageMax.n)

====
